---------------------------- MODULE Spec2Model ----------------------------
(***************************************************************************)
(* State-machine model of the todo-webapp client (src/src/App.tsx): the    *)
(* session store (AuthProvider), the directory store                       *)
(* (UserManagementProvider) and the task store (TaskProvider), together    *)
(* with the API client they call (apiRequest).  The remote service is not  *)
(* part of the repository: every response it may send is an input of the   *)
(* action that receives it.                                                *)
(***************************************************************************)
EXTENDS Naturals, Sequences, FiniteSets, Bags, TLC

(***************************************************************************)
(* Bounds of the model.                                                    *)
(***************************************************************************)
MaxRoles == 2        \* longest role array in a server response
MaxInFlight == 2     \* requests awaiting their response at the same time
MaxUsers == 2        \* longest user array the server returns
MaxTasks == 2        \* longest task array the server returns
MaxRequired == 2     \* longest list of required roles passed to hasRole

(***************************************************************************)
(* Values.  A JavaScript null / undefined / missing property is None; a    *)
(* present value v is Some(v).  The empty string is JavaScript's "" and is *)
(* falsy, as it is in the source.                                          *)
(***************************************************************************)
None == << >>
Some(v) == << v >>
Val(o) == o[1]

SeqUpTo(S, n) == UNION { [1..k -> S] : k \in 0..n }
Range(s) == { s[i] : i \in DOMAIN s }

UserIds == { "u1", "u2" }
Tokens == { "abc", "xyz" }

\* The accounts the service may know: id, email, firstName, lastName.
Profile(id) ==
    IF id = "u1"
    THEN [ id |-> "u1", email |-> "todo@mail.com", firstName |-> "Ana", lastName |-> "Paz" ]
    ELSE [ id |-> id, email |-> "otro@mail.com", firstName |-> "Luis", lastName |-> "Rey" ]
RoleNames == { "administrador", "supervisor", "empleado" }

\* A role object of a response, { id, name, description }: only name is read.
\* name = "" stands for a role whose name is null.
RoleObjects == [ name : RoleNames \cup { "" } ]

\* A user object of a response; roles = None when the property is missing.
WithRoleList(profile, roles) ==
    [ id |-> profile.id, email |-> profile.email, firstName |-> profile.firstName,
      lastName |-> profile.lastName, roles |-> roles ]

ServerUsers(ids, roleLists) ==
    { WithRoleList(Profile(id), roles) :
        id \in ids, roles \in { None } \cup { Some(rl) : rl \in roleLists } }

\* The identities the session store can hold.
Identities ==
    { WithRoleList(Profile(id), roles) :
        id \in UserIds, roles \in SeqUpTo(RoleNames, MaxRoles) }

(***************************************************************************)
(* roles.map((role) => role.name).filter(Boolean)                          *)
(***************************************************************************)
RECURSIVE FilterBoolean(_)
FilterBoolean(names) ==
    IF names = << >> THEN << >>
    ELSE IF Head(names) = "" THEN FilterBoolean(Tail(names))
         ELSE << Head(names) >> \o FilterBoolean(Tail(names))

RoleNamesOf(roles) ==
    IF roles = None THEN << >>
    ELSE FilterBoolean([ i \in DOMAIN Val(roles) |-> Val(roles)[i].name ])

(***************************************************************************)
(* JSON.stringify / JSON.parse of the identity record: the text is the     *)
(* list of the property values in insertion order.                         *)
(***************************************************************************)
JSONstringify(u) == << u.id, u.email, u.firstName, u.lastName, u.roles >>
JSONparse(s) ==
    [ id |-> s[1], email |-> s[2], firstName |-> s[3], lastName |-> s[4],
      roles |-> s[5] ]

(***************************************************************************)
(* apiRequest.  A response is [kind, message, errors, body]:               *)
(*   kind = "network"  fetch rejected with TypeError "Failed to fetch";    *)
(*   kind = "error"    a non-success status; message is the message        *)
(*                     property of the JSON error body ("" when the body   *)
(*                     has none), errors the messages of its errors array; *)
(*   kind = "ok"       a success status; body is the parsed body.          *)
(* The result is [threw, message, value].                                  *)
(***************************************************************************)
NetworkMessage == "No se pudo conectar al servidor"
StatusLine == "Error en la solicitud: status"
ServerMessage == "mensaje del servidor"

apiRequest(resp) ==
    IF resp.kind = "network"
    THEN [ threw |-> TRUE, message |-> NetworkMessage, value |-> resp.body ]
    ELSE IF resp.kind = "error"
    THEN [ threw |-> TRUE,
           message |-> IF resp.message # "" THEN resp.message ELSE StatusLine,
           value |-> resp.body ]
    ELSE [ threw |-> FALSE, message |-> "", value |-> resp.body ]


(***************************************************************************)
(* State.                                                                  *)
(***************************************************************************)
VARIABLES
    user,          \* AuthProvider: the identity, None or Some(identity)
    token,         \* AuthProvider: the bearer token, None or Some(string)
    loading,       \* AuthProvider: TRUE until the restore effect has run
    storage,       \* localStorage: [jwtToken, currentUser], each None or Some
    users,         \* UserManagementProvider: the directory entries
    loadingUsers,  \* UserManagementProvider: loading flag
    errorUsers,    \* UserManagementProvider: error field ("" is null)
    fxUsers,       \* the fetchUsers effect is due (its dependencies changed)
    tasks,         \* TaskProvider: the raw task list
    loadingTasks,  \* TaskProvider: loading flag
    errorTasks,    \* TaskProvider: error field ("" is null)
    page,          \* TaskProvider: [pageNumber, pageSize, totalCount, totalPages]
    fxTasks,       \* the fetchTasks effect is due (its dependencies changed)
    filterDeps,    \* the [tasks, user, allUsers] getFilteredTasks was created with
    net,           \* the requests awaiting their response (a bag)
    last           \* the outcome of the call that returned last

sessionVars == << user, token, storage >>
directoryVars == << users, loadingUsers, errorUsers >>
taskVars == << tasks, loadingTasks, errorTasks, page >>
vars == << user, token, loading, storage, users, loadingUsers, errorUsers,
           fxUsers, tasks, loadingTasks, errorTasks, page, fxTasks, filterDeps,
           net, last >>

\* A request in flight: the operation, the id it targets, the identity id and
\* the page parameters its closure captured when it was called.
Req(op, id, uid, pn, ps) ==
    [ op |-> op, id |-> id, uid |-> uid, pn |-> pn, ps |-> ps, body |-> None ]

InFlight(op) == { r \in BagToSet(net) : r.op = op }
CanSend == BagCardinality(net) < MaxInFlight
Send(r) == net (+) SetToBag({ r })
Receive(r) == net (-) SetToBag({ r })

\* What a call returned: ret is "true", "false", "value" (another value) or
\* "throw", err the message of the error thrown; arg is the response a
\* login received, None for every other call.
Outcome(op, ret, err) == [ op |-> op, ret |-> ret, err |-> err, arg |-> None ]

(***************************************************************************)
(* hasRole(requiredRoles), for the identity u (None or Some).              *)
(***************************************************************************)
hasRoleNoSentinel(u, requiredRoles) ==
    IF u = None THEN FALSE
    ELSE \E i \in DOMAIN requiredRoles :
            \E j \in DOMAIN Val(u).roles : Val(u).roles[j] = requiredRoles[i]

hasRole(u, requiredRoles) ==
    IF u = None THEN FALSE
    ELSE IF \E i \in DOMAIN requiredRoles : requiredRoles[i] = "Any" THEN TRUE
    ELSE \E i \in DOMAIN requiredRoles :
            \E j \in DOMAIN Val(u).roles : Val(u).roles[j] = requiredRoles[i]

\* A component calls hasRole(requiredRoles) of the current render.
RequiredRoleLists == SeqUpTo(RoleNames \cup { "Any", "invitado" }, MaxRequired)

HasRoleCall(requiredRoles) ==
    /\ ~loading
    /\ last' = Outcome("hasRole",
                       IF hasRole(user, requiredRoles) THEN "true" ELSE "false", "")
    /\ UNCHANGED << user, token, loading, storage, users, loadingUsers,
                    errorUsers, fxUsers, tasks, loadingTasks, errorTasks, page,
                    fxTasks, filterDeps, net >>

(***************************************************************************)
(* setUserAndToken(userData, jwtToken): the new <<user, token, storage>>.  *)
(***************************************************************************)
NewUser(userData) ==
    [ id |-> userData.id, email |-> userData.email,
      firstName |-> userData.firstName, lastName |-> userData.lastName,
      roles |-> RoleNamesOf(userData.roles) ]

setUserAndTokenNoPersist(userData, jwtToken) ==
    << Some(NewUser(userData)), Some(jwtToken), storage >>

setUserAndToken(userData, jwtToken) ==
    << Some(NewUser(userData)), Some(jwtToken),
       [ jwtToken |-> Some(jwtToken),
         currentUser |-> Some(JSONstringify(NewUser(userData))) ] >>

(***************************************************************************)
(* React schedules an effect again when one of its dependencies changed.   *)
(* fetchTasks depends on [token, user, pageNumber, pageSize]; fetchUsers   *)
(* on [token, hasRole], and hasRole is created anew whenever user is set   *)
(* to another object.                                                      *)
(***************************************************************************)
SessionChanged(changed) ==
    /\ fxUsers' = (fxUsers \/ changed)
    /\ fxTasks' = (fxTasks \/ changed)

(***************************************************************************)
(* getFilteredTasks is a useCallback over [tasks, user, hasRole, allUsers]:*)
(* the closure is replaced when one of them changed.                       *)
(***************************************************************************)
Deps(t, u, all) == [ tasks |-> t, user |-> u, allUsers |-> all ]

useCallbackStaleDirectory(old, new) ==
    IF new.tasks # old.tasks \/ new.user # old.user THEN new ELSE old

useCallback(old, new) ==
    IF new.tasks # old.tasks \/ new.user # old.user
       \/ new.allUsers # old.allUsers
    THEN new ELSE old

Render == filterDeps' = useCallback(filterDeps, Deps(tasks', user', users'))

(***************************************************************************)
(* Init: the state after construction.  localStorage holds what an earlier *)
(* run of the program left there.                                          *)
(***************************************************************************)
InitialPage == [ pageNumber |-> 1, pageSize |-> 10, totalCount |-> 0, totalPages |-> 0 ]

Constructed ==
    /\ user = None
    /\ token = None
    /\ loading = TRUE
    /\ users = << >>
    /\ loadingUsers = FALSE
    /\ errorUsers = ""
    /\ fxUsers = FALSE
    /\ tasks = << >>
    /\ loadingTasks = FALSE
    /\ errorTasks = ""
    /\ page = InitialPage
    /\ fxTasks = FALSE
    /\ filterDeps = Deps(<< >>, None, << >>)
    /\ net = EmptyBag
    /\ last = Outcome("none", "none", "")

(***************************************************************************)
(* AuthProvider's restore effect.  The children of AuthProvider are        *)
(* rendered only once loading is false, so their effects run after it.     *)
(***************************************************************************)
restoreIgnoresUserKey(st) ==
    IF st.jwtToken # None
    THEN << IF st.currentUser # None THEN Some(JSONparse(Val(st.currentUser))) ELSE None,
            st.jwtToken >>
    ELSE << None, None >>

restore(st) ==
    IF st.jwtToken # None /\ Val(st.jwtToken) # "" /\ st.currentUser # None
    THEN << Some(JSONparse(Val(st.currentUser))), st.jwtToken >>
    ELSE << None, None >>

Restore ==
    /\ loading
    /\ user' = restore(storage)[1]
    /\ token' = restore(storage)[2]
    /\ loading' = FALSE
    /\ fxUsers' = TRUE
    /\ fxTasks' = TRUE
    /\ UNCHANGED << storage, users, loadingUsers, errorUsers, tasks,
                    loadingTasks, errorTasks, page, net, last >>
    /\ Render

\* The page is loaded again: the state is constructed anew, localStorage is
\* kept, and the callbacks of the requests in flight are gone.
Restart ==
    /\ ~loading
    /\ user' = None
    /\ token' = None
    /\ loading' = TRUE
    /\ users' = << >>
    /\ loadingUsers' = FALSE
    /\ errorUsers' = ""
    /\ fxUsers' = FALSE
    /\ tasks' = << >>
    /\ loadingTasks' = FALSE
    /\ errorTasks' = ""
    /\ page' = InitialPage
    /\ fxTasks' = FALSE
    /\ filterDeps' = Deps(<< >>, None, << >>)
    /\ net' = EmptyBag
    /\ last' = Outcome("none", "none", "")
    /\ UNCHANGED storage

(***************************************************************************)
(* The responses to POST /users/login.  The body of a success status is    *)
(* [shape, isSuccess, user, token]: shape "object" is a JSON object,       *)
(* "null" the JSON value null, "text" a body that is not JSON; user = None *)
(* and token = "" stand for a missing value, user or token.                *)
(***************************************************************************)
LoginBody(shape, isSuccess, u, t) ==
    [ shape |-> shape, isSuccess |-> isSuccess, user |-> u, token |-> t ]

NoBody == LoginBody("text", FALSE, None, "")

Response(kind, message, errors, body) ==
    [ kind |-> kind, message |-> message, errors |-> errors, body |-> body ]

\* The responses that carry no usable body: a network failure, and a
\* non-success status whose JSON body has a message property, an errors
\* array or neither.
FailureResponses(body) ==
    { Response("network", "", << >>, body),
      Response("error", "", << >>, body),
      Response("error", ServerMessage, << >>, body),
      Response("error", "", << ServerMessage >>, body) }

\* Every successful login of serverUsers, and every way a body of a success
\* status falls short of { isSuccess: true, value: { user, token } }.
LoginResponsesOver(serverUsers) ==
    LET someUser == Some(CHOOSE su \in serverUsers : TRUE)
    IN  FailureResponses(NoBody)
        \cup { Response("ok", "", << >>, LoginBody("object", TRUE, Some(su), t)) :
                 su \in serverUsers, t \in Tokens }
        \cup { Response("ok", "", errors, body) :
                 errors \in { << >>, << ServerMessage >> },
                 body \in { LoginBody("object", FALSE, someUser, "abc"),
                            LoginBody("object", FALSE, None, ""),
                            LoginBody("object", TRUE, None, "abc"),
                            LoginBody("object", TRUE, someUser, "") } }
        \cup { Response("ok", "", << >>, LoginBody(shape, FALSE, None, "")) :
                 shape \in { "null", "text" } }


InvalidCredentials == "Credenciales invalidas."
TypeErrorMessage == "TypeError"

(***************************************************************************)
(* login(email, password), from the response on: <<ret, err, session>>,    *)
(* session being the new <<user, token, storage>>.                         *)
(***************************************************************************)
login(resp) ==
    LET r == apiRequest(resp)
        body == r.value
    IN  IF r.threw THEN << "throw", r.message, << user, token, storage >> >>
        ELSE IF body.shape = "object" /\ body.isSuccess /\ body.user # None
                /\ body.token # ""
        THEN << "true", "", setUserAndToken(Val(body.user), body.token) >>
        ELSE IF body.shape = "null"
        THEN << "throw", TypeErrorMessage, << user, token, storage >> >>
        ELSE << "throw",
                IF resp.errors # << >> /\ resp.errors[1] # ""
                THEN resp.errors[1] ELSE InvalidCredentials,
                << user, token, storage >> >>

LoginCall ==
    /\ ~loading
    /\ CanSend
    /\ net' = Send(Req("login", "", "", 0, 0))
    /\ UNCHANGED << user, token, loading, storage, users, loadingUsers,
                    errorUsers, fxUsers, tasks, loadingTasks, errorTasks, page,
                    fxTasks, filterDeps, last >>

LoginReturn(resp) ==
    /\ \E r \in InFlight("login") : net' = Receive(r)
    /\ LET res == login(resp)
       IN  /\ last' = [ Outcome("login", res[1], res[2]) EXCEPT !.arg = Some(resp) ]
           /\ user' = res[3][1]
           /\ token' = res[3][2]
           /\ storage' = res[3][3]
           /\ SessionChanged(res[1] = "true")
    /\ UNCHANGED << loading, users, loadingUsers, errorUsers, tasks,
                    loadingTasks, errorTasks, page >>
    /\ Render

(***************************************************************************)
(* register(email, firstName, lastName, password).                         *)
(***************************************************************************)
RegisterResponses == FailureResponses(NoBody) \cup { Response("ok", "", << >>, NoBody) }

\* register(), from the response on: <<ret, err, <<user, token, storage>>>>.
registerLogsIn(resp) ==
    LET r == apiRequest(resp)
    IN  IF r.threw THEN << "throw", r.message, << user, token, storage >> >>
        ELSE << "true", "", setUserAndToken(WithRoleList(Profile("u2"), None), "abc") >>

register(resp) ==
    LET r == apiRequest(resp)
    IN  IF r.threw THEN << "throw", r.message, << user, token, storage >> >>
        ELSE << "true", "", << user, token, storage >> >>

RegisterCall ==
    /\ ~loading
    /\ CanSend
    /\ net' = Send(Req("register", "", "", 0, 0))
    /\ UNCHANGED << user, token, loading, storage, users, loadingUsers,
                    errorUsers, fxUsers, tasks, loadingTasks, errorTasks, page,
                    fxTasks, filterDeps, last >>

RegisterReturn(resp) ==
    /\ \E r \in InFlight("register") : net' = Receive(r)
    /\ last' = Outcome("register", register(resp)[1], register(resp)[2])
    /\ user' = register(resp)[3][1]
    /\ token' = register(resp)[3][2]
    /\ storage' = register(resp)[3][3]
    /\ SessionChanged(user' # user \/ token' # token)
    /\ UNCHANGED << loading, users, loadingUsers, errorUsers, tasks,
                    loadingTasks, errorTasks, page >>
    /\ Render

(***************************************************************************)
(* logout(): the new <<user, token, storage>>.                             *)
(***************************************************************************)
logoutKeepsStoredUser ==
    << None, None, [ jwtToken |-> None, currentUser |-> storage.currentUser ] >>

logoutKeepsToken == << None, token, [ jwtToken |-> None, currentUser |-> None ] >>

logout == << None, None, [ jwtToken |-> None, currentUser |-> None ] >>

Logout ==
    /\ ~loading
    /\ user' = logout[1]
    /\ token' = logout[2]
    /\ storage' = logout[3]
    /\ SessionChanged(user # None \/ token # None)
    /\ last' = Outcome("logout", "none", "")
    /\ UNCHANGED << loading, users, loadingUsers, errorUsers, tasks,
                    loadingTasks, errorTasks, page, net >>
    /\ Render

(***************************************************************************)
(* The directory store (UserManagementProvider).                           *)
(***************************************************************************)
\* The value AuthProvider passes to AuthContext.Provider.
AuthContextValue == { "user", "token", "login", "register", "logout", "hasRole" }

Admin == << "administrador" >>

\* if (!token || !hasRole(["administrador"])): the guard of every operation.
MayAdministerAnySession == token # None

MayAdminister == token # None /\ Val(token) # "" /\ hasRole(user, Admin)

\* { ...u, roles: u.roles ? u.roles.map((role) => role.name).filter(Boolean) : [] }
DirectoryEntry(u) ==
    [ id |-> u.id, email |-> u.email, firstName |-> u.firstName,
      lastName |-> u.lastName, roles |-> RoleNamesOf(u.roles) ]

RECURSIVE FilterOutId(_, _)
FilterOutId(s, id) ==
    IF s = << >> THEN << >>
    ELSE IF Head(s).id = id THEN FilterOutId(Tail(s), id)
         ELSE << Head(s) >> \o FilterOutId(Tail(s), id)

\* The body of a success status of the directory endpoints:
\* [shape, isSuccess, value]; value = None stands for a missing value.
DirBody(shape, isSuccess, value) ==
    [ shape |-> shape, isSuccess |-> isSuccess, value |-> value ]

NoDirBody == DirBody("text", FALSE, None)

DirResponsesOver(values) ==
    FailureResponses(NoDirBody)
    \cup { Response("ok", "", errors, DirBody("object", isSuccess, v)) :
             errors \in { << >>, << ServerMessage >> },
             isSuccess \in BOOLEAN,
             v \in { None } \cup { Some(x) : x \in values } }
    \cup { Response("ok", "", << >>, DirBody(shape, FALSE, None)) :
             shape \in { "null", "text" } }

\* What the else branch of a store operation throws for a success status
\* whose body is not { isSuccess: true, value }.
BodyError(resp, generic) ==
    IF resp.body.shape = "null" THEN TypeErrorMessage
    ELSE IF resp.errors # << >> /\ resp.errors[1] # "" THEN resp.errors[1]
    ELSE generic

BodyOk(body) == body.shape = "object" /\ body.isSuccess /\ body.value # None

(***************************************************************************)
(* fetchUsers(), up to the request: run by the effect, and by createUser.  *)
(***************************************************************************)
FetchUsersEffect ==
    /\ ~loading
    /\ fxUsers
    /\ fxUsers' = FALSE
    /\ IF ~MayAdminister
       THEN /\ users' = << >>
            /\ UNCHANGED << loadingUsers, errorUsers, net >>
       ELSE /\ CanSend
            /\ loadingUsers' = TRUE
            /\ errorUsers' = ""
            /\ net' = Send(Req("fetchUsers", "", "", 0, 0))
            /\ UNCHANGED users
    /\ UNCHANGED << user, token, loading, storage, tasks, loadingTasks,
                    errorTasks, page, fxTasks, last >>
    /\ Render

FetchUsersFailed == "Fallo al obtener usuarios."

fetchUsersKeepsEntries(resp) ==
    LET r == apiRequest(resp)
    IN  IF r.threw THEN << users, r.message >>
        ELSE IF BodyOk(r.value)
        THEN << [ i \in DOMAIN Val(r.value.value) |-> DirectoryEntry(Val(r.value.value)[i]) ], errorUsers >>
        ELSE << users, BodyError(resp, FetchUsersFailed) >>

\* fetchUsers(), from the response on: <<users, errorUsers>>.
fetchUsers(resp) ==
    LET r == apiRequest(resp)
    IN  IF r.threw THEN << << >>, r.message >>
        ELSE IF BodyOk(r.value)
        THEN << [ i \in DOMAIN Val(r.value.value) |-> DirectoryEntry(Val(r.value.value)[i]) ], errorUsers >>
        ELSE << << >>, BodyError(resp, FetchUsersFailed) >>

FetchUsersReturn(resp) ==
    /\ \E r \in InFlight("fetchUsers") : net' = Receive(r)
    /\ users' = fetchUsers(resp)[1]
    /\ errorUsers' = fetchUsers(resp)[2]
    /\ loadingUsers' = FALSE
    /\ UNCHANGED << user, token, loading, storage, fxUsers, tasks,
                    loadingTasks, errorTasks, page, fxTasks, last >>
    /\ Render

(***************************************************************************)
(* createUser, updateUser, deleteUser, assignRolesToUser: the call.  With  *)
(* no token or without the "administrador" role the call returns false at  *)
(* once; otherwise it sends its request.  The request keeps the id of the  *)
(* identity the closure captured.                                          *)
(***************************************************************************)
CallerId == IF user = None THEN "" ELSE Val(user).id

DirectoryCall(op, id) ==
    /\ ~loading
    /\ IF ~MayAdminister
       THEN /\ last' = Outcome(op, "false", "")
            /\ UNCHANGED net
       ELSE /\ CanSend
            /\ net' = Send(Req(op, id, CallerId, 0, 0))
            /\ UNCHANGED last
    /\ UNCHANGED << user, token, loading, storage, users, loadingUsers,
                    errorUsers, fxUsers, tasks, loadingTasks, errorTasks, page,
                    fxTasks, filterDeps >>

CreateUserCall == DirectoryCall("createUser", "")
UpdateUserCall(id) == DirectoryCall("updateUser", id)
DeleteUserCall(id) == DirectoryCall("deleteUser", id)
AssignRolesCall(id) == DirectoryCall("assignRoles", id)

(***************************************************************************)
(* createUser, from the response on.  On success it calls the fetchUsers   *)
(* of its own render, whose guard passed when createUser was called.       *)
(***************************************************************************)
CreateUserReturn(resp) ==
    /\ \E r \in InFlight("createUser") :
         IF apiRequest(resp).threw
         THEN /\ net' = Receive(r)
              /\ errorUsers' = apiRequest(resp).message
              /\ last' = Outcome("createUser", "throw", apiRequest(resp).message)
              /\ UNCHANGED loadingUsers
         ELSE /\ net' = Receive(r) (+) SetToBag({ Req("fetchUsers", "", "", 0, 0) })
              /\ loadingUsers' = TRUE
              /\ errorUsers' = ""
              /\ last' = Outcome("createUser", "value", "")
    /\ UNCHANGED << user, token, loading, storage, users, fxUsers, tasks,
                    loadingTasks, errorTasks, page, fxTasks, filterDeps >>

(***************************************************************************)
(* updateUser(id, ...), from the response on: <<ret, users, errorUsers>>.  *)
(* The body of PATCH /users is itself read as the user: body.value holds   *)
(* its properties, None when the body has none of them.                    *)
(***************************************************************************)
updateUser(resp, id) ==
    LET r == apiRequest(resp)
        updatedUser == r.value.value
        Merge(u) ==
            IF u.id # id THEN u
            ELSE IF r.value.shape = "object" /\ updatedUser # None
            THEN DirectoryEntry(Val(updatedUser))
            ELSE [ u EXCEPT !.roles = << >> ]
    IN  IF r.threw THEN << "false", users, r.message >>
        ELSE << "true", [ i \in DOMAIN users |-> Merge(users[i]) ], errorUsers >>

UpdateUserReturn(resp) ==
    /\ \E r \in InFlight("updateUser") :
         /\ net' = Receive(r)
         /\ last' = Outcome("updateUser", updateUser(resp, r.id)[1], "")
         /\ users' = updateUser(resp, r.id)[2]
         /\ errorUsers' = updateUser(resp, r.id)[3]
    /\ UNCHANGED << user, token, loading, storage, loadingUsers, fxUsers,
                    tasks, loadingTasks, errorTasks, page, fxTasks >>
    /\ Render

(***************************************************************************)
(* deleteUser(id), from the response on: <<ret, users, errorUsers>>.       *)
(***************************************************************************)
deleteUser(resp, id) ==
    LET r == apiRequest(resp)
    IN  IF r.threw THEN << "false", users, r.message >>
        ELSE << "true", FilterOutId(users, id), errorUsers >>

DeleteUserReturn(resp) ==
    /\ \E r \in InFlight("deleteUser") :
         /\ net' = Receive(r)
         /\ last' = Outcome("deleteUser", deleteUser(resp, r.id)[1], "")
         /\ users' = deleteUser(resp, r.id)[2]
         /\ errorUsers' = deleteUser(resp, r.id)[3]
    /\ UNCHANGED << user, token, loading, storage, loadingUsers, fxUsers,
                    tasks, loadingTasks, errorTasks, page, fxTasks >>
    /\ Render

(***************************************************************************)
(* assignRolesToUser(userId, roles), from the response on:                 *)
(* <<ret, users, errorUsers, user>>.  setUser is taken from the context    *)
(* value, which has no such property: calling it throws a TypeError that   *)
(* the catch block records, after setUsers has been called.                *)
(***************************************************************************)
AssignRolesFailed == "Fallo al asignar roles."

WithRoles(u, roles) == [ u EXCEPT !.roles = RoleNamesOf(roles) ]

assignRolesToUser(resp, userId, callerId) ==
    LET r == apiRequest(resp)
        updatedUser == Val(r.value.value)
        newUsers == [ i \in DOMAIN users |->
                        IF users[i].id = userId
                        THEN WithRoles(users[i], updatedUser.roles)
                        ELSE users[i] ]
    IN  IF r.threw THEN << "false", users, r.message, user >>
        ELSE IF ~BodyOk(r.value)
        THEN << "false", users, BodyError(resp, AssignRolesFailed), user >>
        ELSE IF callerId # userId
        THEN << "true", newUsers, errorUsers, user >>
        ELSE IF "setUser" \in AuthContextValue
        THEN << "true", newUsers, errorUsers,
                IF user = None THEN user
                ELSE Some(WithRoles(Val(user), updatedUser.roles)) >>
        ELSE << "false", newUsers, TypeErrorMessage, user >>

AssignRolesReturn(resp) ==
    /\ \E r \in InFlight("assignRoles") :
         LET res == assignRolesToUser(resp, r.id, r.uid)
         IN  /\ net' = Receive(r)
             /\ last' = Outcome("assignRoles", res[1], "")
             /\ users' = res[2]
             /\ errorUsers' = res[3]
             /\ user' = res[4]
             /\ SessionChanged(res[4] # user)
    /\ UNCHANGED << token, loading, storage, loadingUsers, tasks,
                    loadingTasks, errorTasks, page >>
    /\ Render

(***************************************************************************)
(* The task store (TaskProvider).  A task is [id, employeeId, reviewerId,  *)
(* status]; the body of GET /tasks/user/{id} is [shape, tasks, totalCount, *)
(* totalPages, pageNumber, pageSize], tasks = None and a number 0 standing *)
(* for a missing property.                                                 *)
(***************************************************************************)
TaskIds == { "t1", "t2" }
Statuses == { 0 }

Tasks == [ id : TaskIds, employeeId : UserIds, reviewerId : UserIds, status : Statuses ]

TaskBody(shape, ts, window) ==
    [ shape |-> shape, tasks |-> ts, totalCount |-> window.totalCount,
      totalPages |-> window.totalPages, pageNumber |-> window.pageNumber,
      pageSize |-> window.pageSize ]

NoWindow == [ pageNumber |-> 0, pageSize |-> 0, totalCount |-> 0, totalPages |-> 0 ]
NoTaskBody == TaskBody("text", None, NoWindow)

TaskResponsesOver(taskLists, windows) ==
    FailureResponses(NoTaskBody)
    \cup { Response("ok", "", << >>, TaskBody("object", Some(ts), w)) :
             ts \in taskLists, w \in windows }
    \cup { Response("ok", "", << >>, TaskBody("object", None, NoWindow)),
           Response("ok", "", << >>, TaskBody("null", None, NoWindow)),
           Response("ok", "", << >>, TaskBody("text", None, NoWindow)) }

\* x || d
OrElse(x, d) == IF x = 0 THEN d ELSE x

HasSession == token # None /\ Val(token) # "" /\ user # None /\ Val(user).id # ""

(***************************************************************************)
(* fetchTasks(), up to the request: run by the effect.                     *)
(***************************************************************************)
FetchTasksEffect ==
    /\ ~loading
    /\ fxTasks
    /\ fxTasks' = FALSE
    /\ IF ~HasSession
       THEN /\ tasks' = << >>
            /\ UNCHANGED << loadingTasks, errorTasks, net >>
       ELSE /\ CanSend
            /\ loadingTasks' = TRUE
            /\ errorTasks' = ""
            /\ net' = Send(Req("fetchTasks", "", Val(user).id, page.pageNumber,
                               page.pageSize))
            /\ UNCHANGED tasks
    /\ UNCHANGED << user, token, loading, storage, users, loadingUsers,
                    errorUsers, fxUsers, page, last >>
    /\ Render

fetchTasksKeepsList(resp) ==
    LET r == apiRequest(resp)
    IN  IF r.threw THEN << tasks, page, r.message >>
        ELSE << IF r.value.tasks = None THEN << >> ELSE Val(r.value.tasks),
                [ pageNumber |-> OrElse(r.value.pageNumber, 1),
                  pageSize |-> OrElse(r.value.pageSize, 10),
                  totalCount |-> OrElse(r.value.totalCount, 0),
                  totalPages |-> OrElse(r.value.totalPages, 0) ],
                errorTasks >>

\* fetchTasks(), from the response on: <<tasks, page, errorTasks>>.
fetchTasks(resp) ==
    LET r == apiRequest(resp)
        body == r.value
    IN  IF r.threw THEN << << >>, page, r.message >>
        ELSE IF body.shape = "null" THEN << << >>, page, TypeErrorMessage >>
        ELSE << IF body.tasks = None THEN << >> ELSE Val(body.tasks),
                [ pageNumber |-> OrElse(body.pageNumber, 1),
                  pageSize |-> OrElse(body.pageSize, 10),
                  totalCount |-> OrElse(body.totalCount, 0),
                  totalPages |-> OrElse(body.totalPages, 0) ],
                errorTasks >>

\* fetchTasks(), from the response on, as it would be with a guard that
\* drops the response of a superseded request.
FetchTasksAnswerGuarded(r, resp) ==
    LET current == r.pn = page.pageNumber /\ r.ps = page.pageSize
    IN  /\ net' = Receive(r)
        /\ tasks' = IF current THEN fetchTasks(resp)[1] ELSE tasks
        /\ page' = IF current THEN fetchTasks(resp)[2] ELSE page
        /\ errorTasks' = IF current THEN fetchTasks(resp)[3] ELSE errorTasks
        /\ loadingTasks' = FALSE
        /\ fxTasks' = (fxTasks \/ page'.pageNumber # page.pageNumber
                               \/ page'.pageSize # page.pageSize)
        /\ UNCHANGED << user, token, loading, storage, users, loadingUsers,
                        errorUsers, fxUsers, last >>
        /\ Render

FetchTasksAnswer(r, resp) ==
    /\ net' = Receive(r)
    /\ tasks' = fetchTasks(resp)[1]
    /\ page' = fetchTasks(resp)[2]
    /\ errorTasks' = fetchTasks(resp)[3]
    /\ loadingTasks' = FALSE
    /\ fxTasks' = (fxTasks \/ page'.pageNumber # page.pageNumber
                           \/ page'.pageSize # page.pageSize)
    /\ UNCHANGED << user, token, loading, storage, users, loadingUsers,
                    errorUsers, fxUsers, last >>
    /\ Render

FetchTasksReturn(resp) == \E r \in InFlight("fetchTasks") : FetchTasksAnswer(r, resp)

(***************************************************************************)
(* getFilteredTasks(), over the values its closure was created with.       *)
(***************************************************************************)
getFilteredTasksNoEmployeeCheck(d) ==
    IF d.user = None THEN << >>
    ELSE IF hasRole(d.user, Admin) \/ hasRole(d.user, << "empleado" >>)
    THEN d.tasks
    ELSE << >>

getFilteredTasks(d) ==
    LET SupervisorSees(task) ==
            \/ task.reviewerId = Val(d.user).id
            \/ \E i \in DOMAIN d.allUsers :
                  /\ d.allUsers[i].id = task.employeeId
                  /\ \E j \in DOMAIN d.allUsers[i].roles :
                        d.allUsers[i].roles[j] = "empleado"
        EmployeeSees(task) == task.employeeId = Val(d.user).id
    IN  IF d.user = None THEN << >>
        ELSE IF hasRole(d.user, Admin) THEN d.tasks
        ELSE IF hasRole(d.user, << "supervisor" >>)
        THEN SelectSeq(d.tasks, SupervisorSees)
        ELSE IF hasRole(d.user, << "empleado" >>)
        THEN SelectSeq(d.tasks, EmployeeSees)
        ELSE << >>

\* tasks: getFilteredTasks() in the value of TaskContext.Provider.
VisibleTasks == getFilteredTasks(filterDeps)

(***************************************************************************)
(* DashboardPage: the pagination controls.  They are rendered with the     *)
(* task list, that is unless the page shows "no tasks yet": not loading,   *)
(* no error and an empty visible list.                                     *)
(***************************************************************************)
ControlsRendered ==
    /\ ~loading
    /\ user # None
    /\ ~(~loadingTasks /\ errorTasks = "" /\ VisibleTasks = << >>)

\* disabled={pageNumber === 1}, disabled={pageNumber === totalPages}
PreviousDisabled == page.pageNumber = 1
NextDisabled == page.pageNumber = page.totalPages

\* <option value="5">, <option value="10">, <option value="20">
PageSizes == { 5, 10, 20 }

\* setPageNumber / setpageSize: fetchTasks depends on both, its effect is
\* due when one of them changed.
SetPage(pageNumber, pageSize) ==
    /\ page' = [ page EXCEPT !.pageNumber = pageNumber, !.pageSize = pageSize ]
    /\ fxTasks' = (fxTasks \/ pageNumber # page.pageNumber \/ pageSize # page.pageSize)
    /\ UNCHANGED << user, token, loading, storage, users, loadingUsers,
                    errorUsers, fxUsers, tasks, loadingTasks, errorTasks,
                    filterDeps, net, last >>

handlePreviousPage ==
    IF page.pageNumber > 1 THEN page.pageNumber - 1 ELSE page.pageNumber

handleNextPage ==
    IF page.pageNumber < page.totalPages THEN page.pageNumber + 1 ELSE page.pageNumber

HandlePreviousPage ==
    /\ ControlsRendered
    /\ ~PreviousDisabled
    /\ SetPage(handlePreviousPage, page.pageSize)

HandleNextPage ==
    /\ ControlsRendered
    /\ ~NextDisabled
    /\ SetPage(handleNextPage, page.pageSize)

HandlePageSizeChange(size) ==
    /\ ControlsRendered
    /\ size # page.pageSize
    /\ SetPage(1, size)

(***************************************************************************)
(* addTask, updateTask, deleteTask, updateTaskStatus, assignTaskToEmployee *)
(* and assignTaskToSupervisor: the call.  Without a token the call returns *)
(* false at once; otherwise it sends its request.  The request keeps what  *)
(* the closure captured: the identity id and the page asked for, which the *)
(* fetchTasks of that closure uses, and the body posted.                   *)
(***************************************************************************)
TaskCall(op, id, body) ==
    /\ ~loading
    /\ IF token = None \/ Val(token) = ""
       THEN /\ last' = Outcome(op, "false", "")
            /\ UNCHANGED net
       ELSE /\ CanSend
            /\ net' = Send([ Req(op, id, CallerId, page.pageNumber, page.pageSize)
                               EXCEPT !.body = body ])
            /\ UNCHANGED last
    /\ UNCHANGED << user, token, loading, storage, users, loadingUsers,
                    errorUsers, fxUsers, tasks, loadingTasks, errorTasks, page,
                    fxTasks, filterDeps >>

\* newTaskData: title goes to type, a missing id ("") to null ("").
newTaskData(title, description, employeeId, reviewerId, status, priority) ==
    [ description |-> description, type |-> title, status |-> status,
      employeeId |-> employeeId, reviewerId |-> reviewerId,
      priority |-> priority ]

AddTaskCall(title, description, employeeId, reviewerId, status, priority) ==
    TaskCall("addTask", "",
             Some(newTaskData(title, description, employeeId, reviewerId,
                              status, priority)))

UpdateTaskCall(id) == TaskCall("updateTask", id, None)
DeleteTaskCall(id) == TaskCall("deleteTask", id, None)

\* { id, status: newStatus }, { id: taskId, employeeId }, { id: taskId, reviewerId }
UpdateTaskStatusCall(id, newStatus) ==
    TaskCall("updateTaskStatus", id, Some([ status |-> newStatus ]))

AssignTaskToEmployeeCall(taskId, employeeId) ==
    TaskCall("assignTaskToEmployee", taskId, Some([ employeeId |-> employeeId ]))

AssignTaskToSupervisorCall(taskId, reviewerId) ==
    TaskCall("assignTaskToSupervisor", taskId, Some([ reviewerId |-> reviewerId ]))

\* The body of a response to a task mutation: the task, None when the body
\* is no object (shape "text": not JSON, read as text; shape "null": the
\* JSON null).
TaskReply(shape, t) == [ shape |-> shape, value |-> t ]
NoTaskReply == TaskReply("text", None)

(***************************************************************************)
(* fetchTasks() called by addTask and deleteTask: the fetchTasks of their  *)
(* render, over the token, identity and page of that render.  The result   *)
(* is <<requests sent, loadingTasks, errorTasks, tasks>>.                  *)
(***************************************************************************)
fetchTasksNotCalled(r) == << EmptyBag, loadingTasks, errorTasks, tasks >>

fetchTasksOfClosure(r) ==
    IF r.uid = "" THEN << EmptyBag, loadingTasks, errorTasks, << >> >>
    ELSE << SetToBag({ Req("fetchTasks", "", r.uid, r.pn, r.ps) }), TRUE, "", tasks >>

(***************************************************************************)
(* addTask and deleteTask, from the response on:                           *)
(* <<ret, <<requests sent, loadingTasks, errorTasks, tasks>>>>.            *)
(***************************************************************************)
addTaskNoFetch(resp, r) ==
    IF apiRequest(resp).threw
    THEN << "false", << EmptyBag, loadingTasks, apiRequest(resp).message, tasks >> >>
    ELSE << "true", fetchTasksNotCalled(r) >>

addTask(resp, r) ==
    IF apiRequest(resp).threw
    THEN << "false", << EmptyBag, loadingTasks, apiRequest(resp).message, tasks >> >>
    ELSE << "true", fetchTasksOfClosure(r) >>

deleteTask(resp, r) ==
    IF apiRequest(resp).threw
    THEN << "false", << EmptyBag, loadingTasks, apiRequest(resp).message, tasks >> >>
    ELSE << "true", fetchTasksOfClosure(r) >>

AddTaskReturn(resp) ==
    /\ \E r \in InFlight("addTask") :
         /\ net' = Receive(r) (+) addTask(resp, r)[2][1]
         /\ loadingTasks' = addTask(resp, r)[2][2]
         /\ errorTasks' = addTask(resp, r)[2][3]
         /\ tasks' = addTask(resp, r)[2][4]
         /\ last' = Outcome("addTask", addTask(resp, r)[1], "")
    /\ UNCHANGED << user, token, loading, storage, users, loadingUsers,
                    errorUsers, fxUsers, page, fxTasks >>
    /\ Render

DeleteTaskReturn(resp) ==
    /\ \E r \in InFlight("deleteTask") :
         /\ net' = Receive(r) (+) deleteTask(resp, r)[2][1]
         /\ loadingTasks' = deleteTask(resp, r)[2][2]
         /\ errorTasks' = deleteTask(resp, r)[2][3]
         /\ tasks' = deleteTask(resp, r)[2][4]
         /\ last' = Outcome("deleteTask", deleteTask(resp, r)[1], "")
    /\ UNCHANGED << user, token, loading, storage, users, loadingUsers,
                    errorUsers, fxUsers, page, fxTasks >>
    /\ Render

(***************************************************************************)
(* updateTask, updateTaskStatus, assignTaskToEmployee and                  *)
(* assignTaskToSupervisor, from the response on: <<ret, tasks,             *)
(* errorTasks>>.  The body of the response is the updated task.            *)
(***************************************************************************)
\* { ...task, ...updatedTask }
updateTaskMerge(task, body) ==
    IF body.value = None THEN task ELSE Val(body.value)

\* The status a task gets from updatedTask.status when the body is no task:
\* undefined, which is no key of TaskStatusMap.
UndefinedStatus == 4

\* prevTasks.map((task) => task.id === id ? F(task) : task), F per operation.
\* A property read from a body that is a text is undefined (for an id: "").
Reconciled(op, task, body) ==
    CASE op = "updateTask" -> updateTaskMerge(task, body)
      [] op = "updateTaskStatus" ->
            [ task EXCEPT !.status = IF body.value = None THEN UndefinedStatus
                                     ELSE Val(body.value).status ]
      [] op = "assignTaskToEmployee" ->
            [ task EXCEPT !.employeeId = IF body.value = None THEN ""
                                         ELSE Val(body.value).employeeId ]
      [] op = "assignTaskToSupervisor" ->
            [ task EXCEPT !.reviewerId = IF body.value = None THEN ""
                                         ELSE Val(body.value).reviewerId ]

\* updatedTask.status and the like throw a TypeError when the body is null;
\* { ...task, ...null } does not.
ReadThrows(op, body) == op # "updateTask" /\ body.shape = "null"

reconcileEveryTask(op, resp, id) ==
    IF apiRequest(resp).threw THEN << "false", tasks, apiRequest(resp).message >>
    ELSE IF ReadThrows(op, apiRequest(resp).value)
    THEN << "false", tasks, TypeErrorMessage >>
    ELSE << "true",
            [ i \in DOMAIN tasks |-> Reconciled(op, tasks[i], apiRequest(resp).value) ],
            errorTasks >>

reconcileTask(op, resp, id) ==
    IF apiRequest(resp).threw THEN << "false", tasks, apiRequest(resp).message >>
    ELSE IF ReadThrows(op, apiRequest(resp).value)
    THEN << "false", tasks, TypeErrorMessage >>
    ELSE << "true",
            [ i \in DOMAIN tasks |->
                IF tasks[i].id = id
                THEN Reconciled(op, tasks[i], apiRequest(resp).value)
                ELSE tasks[i] ],
            errorTasks >>

ReconcilingReturn(op, resp) ==
    /\ \E r \in InFlight(op) :
         /\ net' = Receive(r)
         /\ last' = Outcome(op, reconcileTask(op, resp, r.id)[1], "")
         /\ tasks' = reconcileTask(op, resp, r.id)[2]
         /\ errorTasks' = reconcileTask(op, resp, r.id)[3]
    /\ UNCHANGED << user, token, loading, storage, users, loadingUsers,
                    errorUsers, fxUsers, loadingTasks, page, fxTasks >>
    /\ Render

UpdateTaskReturn(resp) == ReconcilingReturn("updateTask", resp)
UpdateTaskStatusReturn(resp) == ReconcilingReturn("updateTaskStatus", resp)
AssignTaskToEmployeeReturn(resp) == ReconcilingReturn("assignTaskToEmployee", resp)
AssignTaskToSupervisorReturn(resp) == ReconcilingReturn("assignTaskToSupervisor", resp)

(***************************************************************************)
(* Specifications.  The remote service is an input: each specification     *)
(* names the responses it may send.                                        *)
(*   SpecSession    the session store against every login response within *)
(*                  the bounds, and role assignment by the directory;      *)
(*   SpecDirectory  the directory store with a session store that logs in  *)
(*                  as one of a few accounts;                              *)
(*   SpecView       the task list shown to the view, with the session,     *)
(*                  the directory fetch and the task fetch.                *)
(***************************************************************************)
StoredSessions(serverUsers, tokens) ==
    [ jwtToken : { Some(t) : t \in tokens },
      currentUser : { Some(JSONstringify(NewUser(su))) : su \in serverUsers } ]

EmptyStorage == [ jwtToken |-> None, currentUser |-> None ]

\* An account of the service with the given roles.
Account(id, roleNames) ==
    WithRoleList(Profile(id),
                 Some([ i \in DOMAIN roleNames |-> [ name |-> roleNames[i] ] ]))

\* A single failure, and the successful login of each account.
FewFailures(body) == { Response("network", "", << >>, body) }

FewLoginResponses(accounts) ==
    FewFailures(NoBody)
    \cup { Response("ok", "", << >>, LoginBody("object", TRUE, Some(su), "abc")) :
             su \in accounts }

FewDirResponses(values) ==
    FewFailures(NoDirBody)
    \cup { Response("ok", "", << >>, DirBody("object", TRUE, Some(v))) : v \in values }

\* A success status whose body reports a failure.
Unsuccessful == Response("ok", "", << ServerMessage >>, DirBody("object", FALSE, None))

FewPlainResponses == FewFailures(NoBody) \cup { Response("ok", "", << >>, NoBody) }

SessionOps(loginResponses, registerResponses) ==
    \/ Restore
    \/ LoginCall
    \/ \E resp \in loginResponses : LoginReturn(resp)
    \/ RegisterCall
    \/ \E resp \in registerResponses : RegisterReturn(resp)
    \/ Logout

(***************************************************************************)
(* SpecLogin: startup, login and logout against every login response       *)
(* within the bounds, for accounts whose roles are named "administrador",  *)
(* "empleado" or have no name.                                             *)
(***************************************************************************)
LoginRoleLists ==
    SeqUpTo([ name : { "administrador", "empleado", "" } ], MaxRoles)

LoginUsers == ServerUsers(UserIds, LoginRoleLists)
LoginResponses == LoginResponsesOver(LoginUsers)

InitLogin ==
    /\ Constructed
    /\ storage \in
         [ jwtToken : { None } \cup { Some(t) : t \in Tokens },
           currentUser : { None } \cup
               { Some(JSONstringify(NewUser(su))) : su \in LoginUsers } ]

NextLogin ==
    \/ Restore
    \/ Restart
    \/ LoginCall
    \/ \E resp \in LoginResponses : LoginReturn(resp)
    \/ Logout

SpecLogin == InitLogin /\ [][NextLogin]_vars

(***************************************************************************)
(* SpecHasRole: hasRole for every identity and every list of required      *)
(* roles within the bounds.                                                *)
(***************************************************************************)
InitHasRole ==
    /\ user \in { None } \cup { Some(u) : u \in Identities }
    /\ token \in IF user = None THEN { None } ELSE { Some(t) : t \in Tokens }
    /\ storage = IF user = None THEN EmptyStorage
                 ELSE [ jwtToken |-> token,
                        currentUser |-> Some(JSONstringify(Val(user))) ]
    /\ loading = FALSE
    /\ users = << >>
    /\ loadingUsers = FALSE
    /\ errorUsers = ""
    /\ fxUsers = FALSE
    /\ tasks = << >>
    /\ loadingTasks = FALSE
    /\ errorTasks = ""
    /\ page = InitialPage
    /\ fxTasks = FALSE
    /\ filterDeps = Deps(<< >>, user, << >>)
    /\ net = EmptyBag
    /\ last = Outcome("none", "none", "")

NextHasRole == \E requiredRoles \in RequiredRoleLists : HasRoleCall(requiredRoles)

SpecHasRole == InitHasRole /\ [][NextHasRole]_vars

(***************************************************************************)
(* SpecSession: every operation that writes the session store.             *)
(***************************************************************************)
SessionAccounts ==
    { Account("u1", << "administrador" >>), Account("u2", << "empleado" >>) }

InitSession ==
    /\ Constructed
    /\ storage \in
         [ jwtToken : { None, Some("abc") },
           currentUser : { None } \cup
               { Some(JSONstringify(NewUser(su))) : su \in SessionAccounts } ]

NextSession ==
    \/ SessionOps(FewLoginResponses(SessionAccounts), FewPlainResponses)
    \/ Restart
    \/ \E id \in UserIds : AssignRolesCall(id)
    \/ \E resp \in FewDirResponses({ Account("u1", << "supervisor" >>) })
                       \cup { Unsuccessful } :
          AssignRolesReturn(resp)

SpecSession == InitSession /\ [][NextSession]_vars

(***************************************************************************)
(* SpecDirectory.                                                          *)
(***************************************************************************)
DirectoryAccounts ==
    { Account("u1", << "administrador" >>), Account("u2", << "empleado" >>) }

DirectoryUpdates ==
    { Account("u1", << "supervisor" >>), WithRoleList(Profile("u2"), None) }

FetchUsersResponses ==
    FewDirResponses(SeqUpTo(DirectoryAccounts, MaxUsers)) \cup { Unsuccessful }
UpdateUserResponses == FewDirResponses(DirectoryUpdates)
AssignRolesResponses == FewDirResponses(DirectoryUpdates) \cup { Unsuccessful }

InitDirectory ==
    /\ Constructed
    /\ storage \in { EmptyStorage } \cup StoredSessions(DirectoryAccounts, { "abc" })

DirectoryOps ==
    \/ FetchUsersEffect
    \/ \E resp \in FetchUsersResponses : FetchUsersReturn(resp)
    \/ CreateUserCall
    \/ \E resp \in FewPlainResponses : CreateUserReturn(resp)
    \/ \E id \in UserIds : UpdateUserCall(id)
    \/ \E resp \in UpdateUserResponses : UpdateUserReturn(resp)
    \/ \E id \in UserIds : DeleteUserCall(id)
    \/ \E resp \in FewPlainResponses : DeleteUserReturn(resp)
    \/ \E id \in UserIds : AssignRolesCall(id)
    \/ \E resp \in AssignRolesResponses : AssignRolesReturn(resp)

NextDirectory ==
    \/ Restore
    \/ LoginCall
    \/ \E resp \in FewLoginResponses(DirectoryAccounts) : LoginReturn(resp)
    \/ Logout
    \/ DirectoryOps

SpecDirectory == InitDirectory /\ [][NextDirectory]_vars

(***************************************************************************)
(* SpecView.                                                               *)
(***************************************************************************)
ViewAccounts ==
    { Account("u1", << "administrador" >>),
      Account("u1", << "supervisor", "empleado" >>),
      Account("u2", << "empleado" >>), Account("u2", << >>) }

ViewDirectory ==
    { Account("u1", << "administrador" >>), Account("u2", << "empleado" >>) }

ViewTasks == { t \in Tasks : t.id = "t1" /\ ~(t.employeeId = "u1" /\ t.reviewerId = "u1") }
EchoWindow == [ pageNumber |-> 1, pageSize |-> 10, totalCount |-> 1, totalPages |-> 1 ]

FewTaskResponses(taskLists) ==
    FewFailures(NoTaskBody)
    \cup { Response("ok", "", << >>, TaskBody("object", Some(ts), EchoWindow)) :
             ts \in taskLists }

InitView ==
    /\ Constructed
    /\ storage \in { EmptyStorage } \cup StoredSessions(ViewAccounts, { "abc" })

NextView ==
    \/ Restore
    \/ LoginCall
    \/ \E resp \in FewLoginResponses(ViewAccounts) : LoginReturn(resp)
    \/ Logout
    \/ FetchUsersEffect
    \/ \E resp \in FewDirResponses(SeqUpTo(ViewDirectory, MaxUsers)) :
          FetchUsersReturn(resp)
    \/ FetchTasksEffect
    \/ \E resp \in FewTaskResponses(SeqUpTo(ViewTasks, MaxTasks)) :
          FetchTasksReturn(resp)

SpecView == InitView /\ [][NextView]_vars


(***************************************************************************)
(* SpecTasks: the task store with the session of one administrator, who    *)
(* may log out.  The service holds the tasks t1 and t2; the mutations are  *)
(* called on t1 and answered with t1 as the service changed it.            *)
(***************************************************************************)
StoredTask(id) ==
    [ id |-> id, employeeId |-> "u2", reviewerId |-> "u1", status |-> 0 ]

PatchedTask(id) ==
    [ id |-> id, employeeId |-> "u1", reviewerId |-> "u2", status |-> 1 ]

StoredTaskLists ==
    { << >>, << StoredTask("t1") >>, << StoredTask("t1"), StoredTask("t2") >> }

\* A failed request: no connection, or an error status with a message.
TaskFailures ==
    { Response("network", "", << >>, NoTaskReply),
      Response("error", ServerMessage, << >>, NoTaskReply) }

PlainTaskResponses == TaskFailures \cup { Response("ok", "", << >>, NoTaskReply) }

\* A success status comes with the task as the service changed it, with a
\* body that is no JSON, or with the JSON null.
PatchResponses ==
    TaskFailures
    \cup { Response("ok", "", << >>, TaskReply("object", Some(PatchedTask("t1")))),
           Response("ok", "", << >>, NoTaskReply),
           Response("ok", "", << >>, TaskReply("null", None)) }

UpdateTaskResponses == PatchResponses

FetchTasksResponses ==
    FewTaskResponses(StoredTaskLists)
    \cup { Response("error", ServerMessage, << >>, NoTaskBody) }

TaskAccounts == { Account("u1", << "administrador" >>) }

InitTasks ==
    /\ Constructed
    /\ storage \in { EmptyStorage } \cup StoredSessions(TaskAccounts, { "abc" })

TaskOps ==
    \/ AddTaskCall("titulo", "texto", "", "u1", 1, 2)
    \/ \E resp \in PlainTaskResponses : AddTaskReturn(resp)
    \/ DeleteTaskCall("t1")
    \/ \E resp \in PlainTaskResponses : DeleteTaskReturn(resp)
    \/ UpdateTaskCall("t1")
    \/ \E resp \in UpdateTaskResponses : UpdateTaskReturn(resp)
    \/ UpdateTaskStatusCall("t1", 1)
    \/ \E resp \in PatchResponses : UpdateTaskStatusReturn(resp)
    \/ AssignTaskToEmployeeCall("t1", "u1")
    \/ \E resp \in PatchResponses : AssignTaskToEmployeeReturn(resp)
    \/ AssignTaskToSupervisorCall("t1", "u2")
    \/ \E resp \in PatchResponses : AssignTaskToSupervisorReturn(resp)

NextTasks ==
    \/ Restore
    \/ Logout
    \/ FetchTasksEffect
    \/ \E resp \in FetchTasksResponses : FetchTasksReturn(resp)
    \/ TaskOps

SpecTasks == InitTasks /\ [][NextTasks]_vars

(***************************************************************************)
(* SpecPage: the page window, with the session of one administrator.  The  *)
(* service answers a fetch for page pageNumber of size pageSize with that  *)
(* page of the totalCount tasks it holds at that moment and the window it  *)
(* computed; of the tasks of the page the model keeps the first MaxTasks.  *)
(***************************************************************************)
TotalCounts == { 0, 7, 23 }

Ceil(a, b) == (a + b - 1) \div b

Min(a, b) == IF a < b THEN a ELSE b

TasksOnPage(totalCount, pageNumber, pageSize) ==
    LET before == (pageNumber - 1) * pageSize
    IN  IF totalCount <= before THEN 0 ELSE Min(pageSize, totalCount - before)

PageOfTasks(totalCount, pageNumber, pageSize) ==
    SubSeq(<< StoredTask("t1"), StoredTask("t2") >>, 1,
           Min(MaxTasks, TasksOnPage(totalCount, pageNumber, pageSize)))

PageResponse(r, totalCount) ==
    Response("ok", "", << >>,
             TaskBody("object", Some(PageOfTasks(totalCount, r.pn, r.ps)),
                      [ pageNumber |-> r.pn, pageSize |-> r.ps,
                        totalCount |-> totalCount,
                        totalPages |-> Ceil(totalCount, r.ps) ]))

FetchPageReturn ==
    \E r \in InFlight("fetchTasks") :
        \E totalCount \in TotalCounts :
            FetchTasksAnswer(r, PageResponse(r, totalCount))

InitPage ==
    /\ Constructed
    /\ storage \in StoredSessions(TaskAccounts, { "abc" })

NextPage ==
    \/ Restore
    \/ FetchTasksEffect
    \/ FetchPageReturn
    \/ \E resp \in FewFailures(NoTaskBody) : FetchTasksReturn(resp)
    \/ HandlePreviousPage
    \/ HandleNextPage
    \/ \E size \in PageSizes : HandlePageSizeChange(size)

SpecPage == InitPage /\ [][NextPage]_vars

(***************************************************************************)
(* SpecPageFair: SpecPage where the restore effect and the fetch effect    *)
(* run when they are due and every request in flight is answered.          *)
(***************************************************************************)
\* The requests of the administrator's fetches: one per page and page size.
PageRequests ==
    { Req("fetchTasks", "", "u1", pn, ps) :
        pn \in 1..Ceil(23, 5), ps \in PageSizes }

\* The request r is answered, with a page or with a failure.
AnswerOf(r) ==
    /\ r \in InFlight("fetchTasks")
    /\ \/ \E totalCount \in TotalCounts :
             FetchTasksAnswer(r, PageResponse(r, totalCount))
       \/ \E resp \in FewFailures(NoTaskBody) : FetchTasksAnswer(r, resp)

\* A step of the user: a pagination control is activated.
UserStep ==
    \/ HandlePreviousPage
    \/ HandleNextPage
    \/ \E size \in PageSizes : HandlePageSizeChange(size)

SpecPageFair ==
    /\ SpecPage
    /\ WF_vars(Restore)
    /\ WF_vars(FetchTasksEffect)
    /\ \A r \in PageRequests : WF_vars(AnswerOf(r))

(***************************************************************************)
(* TaskForm.  handleSubmit returns at once for a title that is blank after *)
(* trim(); otherwise it turns the labels of the status and priority        *)
(* selects back into their numbers and calls addTask with the title as     *)
(* typed.  A title is the sequence of its characters.                      *)
(***************************************************************************)
TaskStatusMap ==
    [ k \in 0..3 |-> << "Pendiente", "En Proceso", "Completada", "Cancelada" >>[k + 1] ]

TaskPriorityMap == [ k \in 0..2 |-> << "Baja", "Media", "Alta" >>[k + 1] ]

\* parseInt(Object.keys(map).find((key) => map[key] === label)): the keys
\* are the decimal strings of the numbers, in ascending order; parseInt of
\* undefined is NaN.
EnumValue(map, label) ==
    IF \E k \in DOMAIN map : map[k] = label
    THEN CHOOSE k \in DOMAIN map :
            /\ map[k] = label
            /\ \A j \in DOMAIN map : map[j] = label => k <= j
    ELSE "NaN"

RECURSIVE TrimStart(_)
TrimStart(s) == IF s # << >> /\ Head(s) = " " THEN TrimStart(Tail(s)) ELSE s

Reversed(s) == [ i \in 1..Len(s) |-> s[Len(s) + 1 - i] ]

\* title.trim()
trim(s) == Reversed(TrimStart(Reversed(TrimStart(s))))

\* {hasRole(["administrador", "supervisor"]) && <TaskForm onAddTask={addTask} />}
FormRendered ==
    /\ ~loading
    /\ user # None
    /\ hasRole(user, << "administrador", "supervisor" >>)

\* The form is submitted with neither select changed from "Seleccionar
\* Empleado" / "Seleccionar Supervisor" (the only options there are while
\* the directory is empty).
HandleSubmit(title, description, status, priority) ==
    /\ FormRendered
    /\ IF trim(title) = << >>
       THEN UNCHANGED vars
       ELSE AddTaskCall(title, description, "", "",
                        EnumValue(TaskStatusMap, status),
                        EnumValue(TaskPriorityMap, priority))

(***************************************************************************)
(* SpecCreate: a task is created from the form, by an administrator or by  *)
(* a supervisor.  The service keeps the task it accepted with the fields   *)
(* posted, under a new id; it answers a fetch with a page that holds the   *)
(* created task or does not (the page asked for may be another one, and    *)
(* the service is shared), or the fetch fails.                             *)
(***************************************************************************)
FormTitles == { << >>, << " " >>, << " ", "a" >> }

\* The task the service keeps for the body posted.
ServiceTask(id, body) ==
    [ id |-> id, type |-> body.type, description |-> body.description,
      status |-> body.status, priority |-> body.priority,
      employeeId |-> body.employeeId, reviewerId |-> body.reviewerId ]

\* The bodies the form posts.
PostedBodies ==
    { newTaskData(title, "texto", "", "", EnumValue(TaskStatusMap, "En Proceso"),
                  EnumValue(TaskPriorityMap, "Alta")) :
        title \in { t \in FormTitles : trim(t) # << >> } }

CreateTaskLists ==
    { << >>, << StoredTask("t1") >> }
    \cup { << ServiceTask("t3", b) >> : b \in PostedBodies }
    \cup { << StoredTask("t1"), ServiceTask("t3", b) >> : b \in PostedBodies }

CreateAccounts ==
    { Account("u1", << "administrador" >>), Account("u2", << "supervisor" >>) }

InitCreate ==
    /\ Constructed
    /\ storage \in StoredSessions(CreateAccounts, { "abc" })

NextCreate ==
    \/ Restore
    \/ FetchTasksEffect
    \/ \E resp \in FewTaskResponses(CreateTaskLists) : FetchTasksReturn(resp)
    \/ \E title \in FormTitles : HandleSubmit(title, "texto", "En Proceso", "Alta")
    \/ \E resp \in PlainTaskResponses : AddTaskReturn(resp)

SpecCreate == InitCreate /\ [][NextCreate]_vars

(***************************************************************************)
(* App: the page shown.  renderContent() picks the screen by currentPage;  *)
(* UserManagementPage renders the access-denied message instead of the     *)
(* user list and its controls unless hasRole(["administrador"]).  A page   *)
(* is selected from the sidebar, from the dashboard's button or through    *)
(* window.setCurrentPage; the outcome records the path, the page selected  *)
(* and the screen rendered for it.                                         *)
(***************************************************************************)
UserManagementPageUnguarded(u) == "user list and controls"

UserManagementPage(u) ==
    IF ~hasRole(u, Admin) THEN "Acceso Denegado" ELSE "user list and controls"

renderContent(currentPage, u) ==
    CASE currentPage = "login" -> "LoginPage"
      [] currentPage = "register" -> "RegisterPage"
      [] currentPage = "dashboard" -> "DashboardPage"
      [] currentPage = "user-management" -> UserManagementPage(u)
      [] OTHER -> "LoginPage"

\* setCurrentPage(currentPage) by the control named path, and the render
\* that follows.
SetCurrentPage(path, currentPage) ==
    /\ ~loading
    /\ last' = [ Outcome(path, renderContent(currentPage, user), "")
                   EXCEPT !.arg = Some(currentPage) ]
    /\ UNCHANGED << user, token, loading, storage, users, loadingUsers,
                    errorUsers, fxUsers, tasks, loadingTasks, errorTasks, page,
                    fxTasks, filterDeps, net >>

\* The sidebar is rendered for a logged-in user, its "Usuarios" button for
\* an administrator only.
SidebarTasks == user # None /\ SetCurrentPage("sidebar", "dashboard")

SidebarUsers ==
    /\ user # None
    /\ hasRole(user, Admin)
    /\ SetCurrentPage("sidebar", "user-management")

\* "Gestion de Usuarios" on the dashboard, rendered for an administrator.
DashboardUsersButton ==
    /\ hasRole(user, Admin)
    /\ SetCurrentPage("dashboard button", "user-management")

\* window.setCurrentPage(currentPage), from anywhere.
WindowSetCurrentPage(currentPage) == SetCurrentPage("window", currentPage)

(***************************************************************************)
(* SpecScreen: every identity (or none) selects pages by every path.       *)
(***************************************************************************)
PageNames == { "login", "register", "dashboard", "user-management", "" }

NextScreen ==
    \/ SidebarTasks
    \/ SidebarUsers
    \/ DashboardUsersButton
    \/ \E currentPage \in PageNames : WindowSetCurrentPage(currentPage)

SpecScreen == InitHasRole /\ [][NextScreen]_vars

(***************************************************************************)
(* Properties.                                                             *)
(***************************************************************************)
RoleSet(u) == Range(u.roles)

\* C1: in every reachable state of the session store the identity and the
\* token are both present or both absent (SpecSession: startup restore,
\* login, register, logout, role assignment).
C1_IdentityAndTokenTogether == (user = None) <=> (token = None)

\* A session that outlived a role assignment to the caller's own account.
C1_Witness ==
    /\ last.op = "assignRoles"
    /\ user # None
    /\ token # None

\* C3: hasRole(Q) is true iff there is an identity and "Any" is in Q or the
\* identity's roles and Q share a role; with no identity it is false for
\* every Q (SpecHasRole).
C3_HasRole ==
    [][ \A requiredRoles \in RequiredRoleLists :
          HasRoleCall(requiredRoles) =>
            ( (last'.ret = "true") <=>
                ( /\ user # None
                  /\ \/ "Any" \in Range(requiredRoles)
                     \/ RoleSet(Val(user)) \cap Range(requiredRoles) # { } ) ) ]_vars

\* hasRole returned true for an identity without roles: by the sentinel.
C3_Witness ==
    /\ last.op = "hasRole"
    /\ last.ret = "true"
    /\ user # None
    /\ Val(user).roles = << >>

\* The response is { isSuccess: true, value: { user, token } }.
Successful(resp) ==
    /\ resp.kind = "ok"
    /\ resp.body.shape = "object"
    /\ resp.body.isSuccess
    /\ resp.body.user # None
    /\ resp.body.token # ""

NamedRoles(su) ==
    IF su.roles = None THEN { }
    ELSE { Val(su.roles)[i].name : i \in DOMAIN Val(su.roles) } \ { "" }

\* C4: after login received { isSuccess: true, value: { user, token } } it
\* returned true, the identity has the id, email, firstName and lastName of
\* the response user and the names of its roles, the token is the response
\* token, and localStorage holds that token and that identity serialized
\* (SpecLogin).
C4_LoginStoresSession ==
    (last.op = "login" /\ Successful(Val(last.arg))) =>
        LET su == Val(Val(last.arg).body.user)
            jwt == Val(last.arg).body.token
        IN  /\ last.ret = "true"
            /\ user # None
            /\ Val(user).id = su.id
            /\ Val(user).email = su.email
            /\ Val(user).firstName = su.firstName
            /\ Val(user).lastName = su.lastName
            /\ RoleSet(Val(user)) = NamedRoles(su)
            /\ token = Some(jwt)
            /\ storage.jwtToken = Some(jwt)
            /\ storage.currentUser = Some(JSONstringify(Val(user)))

C4_Witness ==
    /\ last.op = "login"
    /\ last.ret = "true"
    /\ user # None
    /\ Val(user).email = "todo@mail.com"
    /\ Val(user).roles = << "administrador" >>
    /\ storage.jwtToken = Some("abc")

\* The message the service provided with a response, "" when none.
ServerProvided(resp) ==
    IF resp.kind = "network" THEN ""
    ELSE IF resp.message # "" THEN resp.message
    ELSE IF resp.errors # << >> THEN resp.errors[1]
    ELSE ""

GenericMessages ==
    { NetworkMessage, StatusLine, InvalidCredentials, TypeErrorMessage }

LoginReturned == last'.op = "login" /\ \E r \in InFlight("login") : net' = Receive(r)

\* C5: for a response that is unsuccessful or malformed login throws and
\* never returns a success flag; the error carries the message the service
\* provided when there is one and a generic message otherwise; identity,
\* token and localStorage are as before the call (SpecLogin).
C5_LoginFailure ==
    [][ (LoginReturned /\ ~Successful(Val(last'.arg))) =>
          /\ last'.ret = "throw"
          /\ IF ServerProvided(Val(last'.arg)) # ""
             THEN last'.err = ServerProvided(Val(last'.arg))
             ELSE last'.err \in GenericMessages
          /\ UNCHANGED << user, token, storage >> ]_vars

\* C6: logout from any state leaves identity and token absent and both
\* localStorage keys removed, and sends no request (SpecSession).
C6_Logout ==
    [][ Logout =>
          /\ user' = None
          /\ token' = None
          /\ storage'.jwtToken = None
          /\ storage'.currentUser = None
          /\ net' = net ]_vars

\* Logged out while a request was in flight.
C6_Witness ==
    /\ last.op = "logout"
    /\ user = None
    /\ token = None
    /\ storage = EmptyStorage
    /\ net # EmptyBag

\* C7: after startup the session is exactly the stored token and the stored
\* identity when both keys are present and absent when either is missing;
\* and while a session is held localStorage holds that session, so what a
\* login stored is what the next startup restores (SpecLogin).
C7_Startup ==
    /\ (~loading /\ last.op = "none") =>
          IF storage.jwtToken # None /\ storage.currentUser # None
          THEN /\ token = storage.jwtToken
               /\ user # None
               /\ JSONstringify(Val(user)) = Val(storage.currentUser)
          ELSE user = None /\ token = None
    /\ (~loading /\ user # None) =>
          /\ storage.jwtToken = token
          /\ storage.currentUser = Some(JSONstringify(Val(user)))

\* Started with a stored session, nothing called since.
C7_Witness ==
    /\ ~loading
    /\ last.op = "none"
    /\ user # None
    /\ Val(user).roles = << "administrador", "empleado" >>
    /\ token = Some("xyz")

\* The visibility rule, over the task list, the identity and the directory
\* the stores hold now.
EmployeesOfDirectory ==
    { users[i].id : i \in { j \in DOMAIN users : "empleado" \in RoleSet(users[j]) } }

RefVisible ==
    LET me == Val(user)
        ReviewedOrOfEmployee(t) ==
            t.reviewerId = me.id \/ t.employeeId \in EmployeesOfDirectory
        Own(t) == t.employeeId = me.id
    IN  IF user = None THEN << >>
        ELSE IF "administrador" \in RoleSet(me) THEN tasks
        ELSE IF "supervisor" \in RoleSet(me) THEN SelectSeq(tasks, ReviewedOrOfEmployee)
        ELSE IF "empleado" \in RoleSet(me) THEN SelectSeq(tasks, Own)
        ELSE << >>

\* C2: in every reachable state the task list given to the view is the
\* visibility rule applied to the current raw task list, identity and
\* directory: all for 'administrador', else for 'supervisor' the tasks
\* reviewed by the caller or assigned to a directory entry holding
\* 'empleado', else for 'empleado' the caller's own, else none (SpecView).
C2_VisibleIsReference == VisibleTasks = RefVisible

\* A supervisor sees, of two tasks, only the one the directory makes visible.
C2_Witness ==
    /\ user # None
    /\ RoleSet(Val(user)) = { "supervisor", "empleado" }
    /\ users # << >>
    /\ Len(tasks) = 2
    /\ Len(VisibleTasks) = 1
    /\ VisibleTasks[1].reviewerId # Val(user).id

OnlyOwnTasks ==
    \A i \in DOMAIN VisibleTasks : VisibleTasks[i].employeeId = Val(user).id

\* C8 as stated: an identity holding 'empleado' never sees a task whose
\* employeeId is not its own id.
C8_AsStated == (user # None /\ "empleado" \in RoleSet(Val(user))) => OnlyOwnTasks

\* C8: an identity holding 'empleado' and neither 'administrador' nor
\* 'supervisor' never sees a task whose employeeId is not its own id,
\* whatever raw task list was fetched (SpecView).
C8_EmployeeSeesOwn ==
    ( /\ user # None
      /\ "empleado" \in RoleSet(Val(user))
      /\ { "administrador", "supervisor" } \cap RoleSet(Val(user)) = { } )
    => OnlyOwnTasks

\* An employee with a task of its own and a task of another employee.
C8_Witness ==
    /\ user # None
    /\ RoleSet(Val(user)) = { "empleado" }
    /\ Len(tasks) = 2
    /\ \E i \in DOMAIN tasks : tasks[i].employeeId # Val(user).id
    /\ Len(VisibleTasks) = 1

\* The service answered { isSuccess: true, value: account }.
Succeeded(resp) == resp.kind = "ok" /\ BodyOk(resp.body)

\* C9: after assignRoles(userId, roleNames) succeeded at the server, userId
\* being the id of the caller, the identity's roles are the role names the
\* server returned and the call returned true (SpecDirectory).
C9_OwnRolesUpdated ==
    [][ \A resp \in AssignRolesResponses :
          \A r \in InFlight("assignRoles") :
            ( /\ AssignRolesReturn(resp)
              /\ net' = Receive(r)
              /\ Succeeded(resp)
              /\ user # None
              /\ r.id = Val(user).id
              /\ r.uid = Val(user).id )
            => /\ last'.ret = "true"
               /\ user' # None
               /\ Val(user').roles = RoleNamesOf(Val(resp.body.value).roles) ]_vars

NotAdministrator ==
    \/ user = None
    \/ token = None
    \/ "administrador" \notin RoleSet(Val(user))

DirectoryOperationCalled ==
    \/ CreateUserCall
    \/ \E id \in UserIds : UpdateUserCall(id)
    \/ \E id \in UserIds : DeleteUserCall(id)
    \/ \E id \in UserIds : AssignRolesCall(id)

\* C10: create, update, remove and assignRoles of the directory, called
\* with no session or by an identity without 'administrador', send no
\* request, change no state of any store and return false (SpecDirectory).
C10_NotAdministratorNoOp ==
    [][ (NotAdministrator /\ DirectoryOperationCalled) =>
          /\ net' = net
          /\ UNCHANGED << sessionVars, directoryVars, taskVars >>
          /\ last'.ret = "false" ]_vars

\* An employee called assignRoles and got false.
C10_Witness ==
    /\ user # None
    /\ token # None
    /\ Val(user).roles = << "empleado" >>
    /\ last = Outcome("assignRoles", "false", "")
    /\ net = EmptyBag
    /\ errorUsers = ""

RegisterStep ==
    \/ RegisterCall
    \/ \E resp \in FewPlainResponses : RegisterReturn(resp)

\* C20: register never changes the session: whether it succeeds or fails,
\* identity, token and localStorage are after the call what they were
\* before it, so who has only registered is not authenticated (SpecSession).
C20_RegisterKeepsSession ==
    [][ RegisterStep => UNCHANGED << user, token, storage >> ]_vars

\* Registered with success, and still without a session.
C20_Witness ==
    /\ last.op = "register"
    /\ last.ret = "true"
    /\ user = None
    /\ token = None
    /\ storage = EmptyStorage

\* C11: fetchUsers run with no session or by an identity without
\* 'administrador' sends no request, leaves the entries empty and records
\* no error; run by an administrator, when its request fails or the
\* response is unsuccessful it records an error and leaves the entries
\* empty (SpecDirectory).
C11_FetchUsersGuardAndFailure ==
    [][ /\ (FetchUsersEffect /\ NotAdministrator) =>
              /\ net' = net
              /\ users' = << >>
              /\ errorUsers' = errorUsers
        /\ \A resp \in FetchUsersResponses :
              (FetchUsersReturn(resp) /\ ~Succeeded(resp)) =>
                  /\ users' = << >>
                  /\ errorUsers' # "" ]_vars

\* An administrator's fetch failed: an error is shown and no entries.
C11_Witness ==
    /\ user # None
    /\ Val(user).roles = << "administrador" >>
    /\ ~loadingUsers
    /\ InFlight("fetchUsers") = { }
    /\ errorUsers = NetworkMessage
    /\ users = << >>

DirectoryMutations == { "createUser", "updateUser", "deleteUser", "assignRoles" }

Answered(r) == CopiesIn(r, net') < CopiesIn(r, net)

\* The message of the error a failed request ends in.
FailureMessage(resp) ==
    IF resp.kind = "network" THEN NetworkMessage
    ELSE IF ServerProvided(resp) # "" THEN ServerProvided(resp)
    ELSE StatusLine

\* The fetch a closure of the request r starts.
FetchOf(r) == SetToBag({ Req("fetchTasks", "", r.uid, r.pn, r.ps) })

\* C13: fetchTasks run with no token or no identity sends no request and
\* leaves the raw task list empty; when its request fails the message is
\* recorded in errorTasks and the list left empty; when it succeeds the
\* returned tasks and the returned page window are stored (SpecTasks).
C13_FetchTasks ==
    [][ /\ (FetchTasksEffect /\ (token = None \/ user = None)) =>
              /\ net' = net
              /\ tasks' = << >>
        /\ \A resp \in FetchTasksResponses :
              FetchTasksReturn(resp) =>
                  IF resp.kind # "ok"
                  THEN /\ errorTasks' = FailureMessage(resp)
                       /\ tasks' = << >>
                  ELSE /\ tasks' = Val(resp.body.tasks)
                       /\ page'.pageNumber = resp.body.pageNumber
                       /\ page'.pageSize = resp.body.pageSize
                       /\ page'.totalCount = resp.body.totalCount
                       /\ page'.totalPages = resp.body.totalPages ]_vars

\* A fetch failed with the message of the service: no tasks are left.
C13_Witness ==
    /\ user # None
    /\ ~loadingTasks
    /\ InFlight("fetchTasks") = { }
    /\ errorTasks = ServerMessage
    /\ tasks = << >>
    /\ page.totalCount = 1

TaskPatches ==
    { "updateTask", "updateTaskStatus", "assignTaskToEmployee",
      "assignTaskToSupervisor" }

AddTaskCalled == AddTaskCall("titulo", "texto", "", "u1", 1, 2)

\* C15: addTask with a session posts one new task; when the post succeeds
\* it returns true and a fetch is sent; when it fails it returns false,
\* records the message in errorTasks and sends no fetch, throwing nothing;
\* with no session it sends nothing and returns false (SpecTasks).
C15_AddTask ==
    [][ /\ AddTaskCalled =>
              IF token = None
              THEN net' = net /\ last'.ret = "false"
              ELSE \E r \in BagToSet(net') :
                      /\ r.op = "addTask"
                      /\ r.body = Some(newTaskData("titulo", "texto", "", "u1", 1, 2))
                      /\ net' = net (+) SetToBag({ r })
        /\ \A resp \in PlainTaskResponses :
              \A r \in InFlight("addTask") :
                (AddTaskReturn(resp) /\ Answered(r)) =>
                    IF resp.kind # "ok"
                    THEN /\ last'.ret = "false"
                         /\ errorTasks' = FailureMessage(resp)
                         /\ net' = Receive(r)
                    ELSE /\ last'.ret = "true"
                         /\ net' = Receive(r) (+) FetchOf(r) ]_vars

\* A task was added: the call returned true and the fetch is in flight.
C15_Witness ==
    /\ last = Outcome("addTask", "true", "")
    /\ InFlight("addTask") = { }
    /\ InFlight("fetchTasks") # { }
    /\ loadingTasks

\* C16: deleteTask(id) for an id the service does not have (it answers with
\* an error status) fails with the error of the service; and of two
\* deleteTask(id) in succession, the first answered with success and the
\* second with that error, after either has returned the task with that id
\* is not in the visible task list (SpecTasks).
C16_DeleteTwice ==
    [][ \A resp \in PlainTaskResponses :
          \A r \in InFlight("deleteTask") :
            (DeleteTaskReturn(resp) /\ Answered(r)) =>
                /\ resp.kind = "error" =>
                      /\ last'.ret = "false"
                      /\ errorTasks' = resp.message
                /\ (resp.kind = "ok" \/
                    (resp.kind = "error" /\ last = Outcome("deleteTask", "true", "")))
                   => \A i \in DOMAIN VisibleTasks' : VisibleTasks'[i].id # r.id ]_vars

\* C18: where the pagination controls are shown, Previous is disabled
\* whenever pageNumber = 1 and Next is disabled whenever pageNumber >=
\* totalPages; and activating Previous or Next never moves pageNumber below
\* 1 or above totalPages (SpecPage).
C18_PaginationControls ==
    [][ /\ ControlsRendered =>
              /\ page.pageNumber = 1 => PreviousDisabled
              /\ page.pageNumber >= page.totalPages => NextDisabled
        /\ HandlePreviousPage => page'.pageNumber >= 1
        /\ HandleNextPage => page'.pageNumber <= page'.totalPages ]_vars

\* C19: the page window is self-consistent in every reachable state:
\* totalPages = ceil(totalCount / pageSize) for the pageSize the store holds
\* (the initial window, 0 tasks in 0 pages, included), also after the user
\* changed pageSize and before the fetch this starts has completed
\* (SpecPage).
C19_WindowConsistent == page.totalPages = Ceil(page.totalCount, page.pageSize)

\* The task t carries the inputs of create: type is the title, and the
\* description, status and priority are those passed.
CarriesInputs(t, title, description, status, priority) ==
    /\ "type" \in DOMAIN t
    /\ t.type = title
    /\ t.description = description
    /\ t.status = status
    /\ t.priority = priority

\* Some task of the list ts carries the inputs the form passes to create.
ListsCreated(ts) ==
    \E title \in FormTitles :
        /\ trim(title) # << >>
        /\ \E i \in DOMAIN ts : CarriesInputs(ts[i], title, "texto", 1, 2)

\* C17: after create(title, description, employeeId, reviewerId, status,
\* priority) has succeeded and the fetch it triggered has completed, the
\* task list contains a task whose type is the title and whose description,
\* status and priority are the inputs.  Stated for the case most favourable
\* to it: the fetch succeeded and the page the service answered holds the
\* created task (SpecCreate).
C17_CreatedTaskListed ==
    [][ \A resp \in FewTaskResponses(CreateTaskLists) :
          \A r \in InFlight("fetchTasks") :
            ( /\ FetchTasksAnswer(r, resp)
              /\ last = Outcome("addTask", "true", "")
              /\ net = SetToBag({ r })
              /\ resp.kind = "ok"
              /\ ListsCreated(Val(resp.body.tasks)) )
            => ListsCreated(VisibleTasks') ]_vars

\* C21: a response to a task fetch is applied when it arrives, whatever the
\* store holds and whatever else is in flight: the raw task list and the
\* page window become those of that response, so of two overlapping fetches
\* the one answered last decides both, whichever was sent first (SpecPage).
C21_LastResponseWins ==
    [][ \A r \in InFlight("fetchTasks") :
          \A totalCount \in TotalCounts :
            (FetchTasksAnswer(r, PageResponse(r, totalCount)) /\ Answered(r)) =>
                /\ tasks' = PageOfTasks(totalCount, r.pn, r.ps)
                /\ page' = [ pageNumber |-> r.pn, pageSize |-> r.ps,
                             totalCount |-> totalCount,
                             totalPages |-> Ceil(totalCount, r.ps) ] ]_vars

\* Two fetches overlapped: the response to the one sent later has been
\* applied (the window is at its page) and the earlier one, for the page
\* before, is still in flight.
C21_Witness ==
    /\ ~loadingTasks
    /\ errorTasks = ""
    /\ \E r \in InFlight("fetchTasks") :
          /\ r.pn + 1 = page.pageNumber
          /\ r.pn > 1

\* No fetch is in flight and none is due.
Quiescent == InFlight("fetchTasks") = { } /\ ~fxTasks

\* C22: when every request is answered and the answers echo the page asked
\* for, then once the user activates no control any more the task store
\* comes to rest: from some moment on no fetch is in flight and none is
\* sent (SpecPageFair).
C22_FetchingEnds == (<>[][~UserStep]_vars) => <>[]Quiescent

\* C23: the response to a task fetch that was sent for another identity
\* than the current one (the user logged out and another account logged in
\* while it was in flight) is not stored: the raw task list and the page
\* window stay what they were (SpecView).
C23_OnlyOwnResponses ==
    [][ \A r \in InFlight("fetchTasks") :
          (Answered(r) /\ user # None /\ Val(user).id # r.uid) =>
              (tasks' = tasks /\ page' = page) ]_vars

\* C24: in every state with no session in which the effects that logout
\* made due have run, the raw task list is empty, whatever request sent
\* before the logout is answered after it (SpecTasks).
C24_NoSessionNoTasks ==
    (~loading /\ user = None /\ token = None /\ ~fxTasks) => tasks = << >>

\* C25: in every state where the current identity does not hold
\* 'administrador' (or there is none) and the directory's fetch effect has
\* run for it, the directory is empty, whatever directory fetch of an
\* earlier administrator session is answered later; so the visible tasks
\* of a supervisor who is no administrator are exactly the raw tasks whose
\* reviewerId is its id (SpecView).
C25_DirectoryOnlyForAdmin ==
    (~loading /\ ~hasRole(user, Admin) /\ ~fxUsers) =>
        /\ users = << >>
        /\ hasRole(user, << "supervisor" >>) =>
              VisibleTasks = SelectSeq(tasks, LAMBDA t : t.reviewerId = Val(user).id)

\* C26: loadingTasks is true in every state where a task fetch is in
\* flight, also when two fetches overlap and one of them has been answered
\* (SpecPage).
C26_LoadingWhileFetching == InFlight("fetchTasks") # { } => loadingTasks

\* C27: after updateTaskStatus(id, s) returned true the local task with that
\* id has status s, after assignTaskToEmployee(taskId, e) returned true it
\* has employeeId e, and after assignTaskToSupervisor(taskId, r) returned
\* true it has reviewerId r, whatever body came with the success status
\* (SpecTasks).
C27_PatchedAsAsked ==
    [][ \A r \in BagToSet(net) :
          (Answered(r) /\ last'.op = r.op /\ last'.ret = "true") =>
            \A i \in DOMAIN tasks' :
              tasks'[i].id = r.id =>
                /\ r.op = "updateTaskStatus" =>
                      tasks'[i].status = Val(r.body).status
                /\ r.op = "assignTaskToEmployee" =>
                      tasks'[i].employeeId = Val(r.body).employeeId
                /\ r.op = "assignTaskToSupervisor" =>
                      tasks'[i].reviewerId = Val(r.body).reviewerId ]_vars

\* C28: a successful updateUser(id, email, firstName, lastName) leaves the
\* roles of the directory entry with that id as they were and leaves every
\* other entry unchanged, whatever body came with the success status
\* (SpecDirectory).
C28_UpdateKeepsRoles ==
    [][ \A r \in InFlight("updateUser") :
          (Answered(r) /\ last'.op = "updateUser" /\ last'.ret = "true") =>
            /\ Len(users') = Len(users)
            /\ \A i \in DOMAIN users :
                  IF users[i].id = r.id
                  THEN users'[i].roles = users[i].roles
                  ELSE users'[i] = users[i] ]_vars

\* C29: whenever the page window reports more than one page and no task
\* fetch is in flight, the dashboard offers Previous or Next, enabled, also
\* when the visible list of the current page is empty (SpecPage).
C29_CanLeavePage ==
    (~loading /\ user # None /\ page.totalPages > 1
       /\ InFlight("fetchTasks") = { }) =>
        (ControlsRendered /\ (~PreviousDisabled \/ ~NextDisabled))

\* C30: whenever the page 'user-management' was selected, by the sidebar,
\* by the dashboard's button or through window.setCurrentPage, the user
\* list and its controls are rendered if the current identity holds
\* 'administrador', and for every other identity, or none, only the
\* access-denied message is (SpecScreen).
C30_UserManagementGuarded ==
    last.arg = Some("user-management") =>
        last.ret = IF hasRole(user, Admin) THEN "user list and controls"
                   ELSE "Acceso Denegado"

\* An identity that is no administrator selected 'user-management' through
\* window.setCurrentPage and sees the access-denied message.
C30_Witness ==
    /\ user # None
    /\ ~hasRole(user, Admin)
    /\ last.op = "window"
    /\ last.arg = Some("user-management")
    /\ last.ret = "Acceso Denegado"
=============================================================================
